---------------------------- MODULE Spec2Model ----------------------------
(***************************************************************************)
(* A model of src/app.py, the Dash dashboard of the housing affordability  *)
(* index: the module-level dataset MergedData and the callback             *)
(* update_dashboard, which copies the dataset, recomputes the index column *)
(* from the request, bands it, ranks the districts and renders the map and *)
(* the two tables.                                                         *)
(*                                                                         *)
(* Numbers.  pandas holds the index column as floats.  The model holds an  *)
(* index as an exact fraction <<n, d>> in lowest terms (d > 0), so two     *)
(* indices are equal exactly when the fractions are.  IEEE division is     *)
(* correctly rounded: a quotient that is exactly 6, 9 or 12 is the float   *)
(* 6.0, 9.0 or 12.0, and rounding is monotone, so the bands and the order  *)
(* of the model's fractions are those of the floats for the amounts of     *)
(* money the model draws.                                                  *)
(*                                                                         *)
(* Objects.  A DataFrame is an object on the heap: `frames` maps a         *)
(* reference to the table it holds, and a session's local `df` is a        *)
(* reference, so that writing a column through df changes whatever object  *)
(* df refers to.                                                           *)
(***************************************************************************)
EXTENDS Integers, Sequences, FiniteSets, TLC

VARIABLES
    csv,        \* the rows of the file "Merged data.csv"
    frames,     \* the heap: reference -> the table (a sequence of rows) it holds
    pc,         \* per session: where its request is in update_dashboard
    req,        \* session in a request -> the request (ctx.triggered, user_salary)
    df,         \* session in a request -> its local df, a reference into frames
    warn,       \* session in a request -> its locals warning_message, show_warning
    out,        \* session served -> the last response its browser received
    lastReq,    \* session served -> the request that produced out
    twice       \* per session: whether its last two responses were both to resets

vars == <<csv, frames, pc, req, df, warn, out, lastReq, twice>>

NaN == "NaN"

(***************************************************************************)
(* Bounds of the model.                                                    *)
(***************************************************************************)
MaxDistricts == 10
MaxOffset == 6

(***************************************************************************)
(* Exact fractions.                                                        *)
(***************************************************************************)
RECURSIVE Gcd(_, _)
Gcd(a, b) == IF b = 0 THEN a ELSE Gcd(b, a % b)

Abs(x) == IF x < 0 THEN -x ELSE x

Min(a, b) == IF a <= b THEN a ELSE b

\* The fraction n/d (d > 0) in lowest terms.
Frac(n, d) == LET g == Gcd(Abs(n), d) IN <<n \div g, d \div g>>

FracLt(a, b) == a[1] * b[2] < b[1] * a[2]

FracLe(a, b) == a[1] * b[2] <= b[1] * a[2]

\* Comparison of a fraction with an integer, as in `user_salary > 0`.
GtInt(a, k) == a[1] > k * a[2]

LeInt(a, k) == a[1] <= k * a[2]

\* price / user_salary, for an integer price and a fraction user_salary > 0.
TrueDiv(price, s) == Frac(price * s[2], s[1])

(***************************************************************************)
(* The dataset.  read_csv gives one row per district with the columns      *)
(* LAD23CD, Location, Median House Price, Median Salary and Housing        *)
(* Affordability Index.  The model draws it as a window of a pool of       *)
(* districts, read forwards or backwards: the pool starts with the two     *)
(* districts A (300000, 40000, 7.5) and B (150000, 30000, 5.0), has equal  *)
(* prices and equal indices at different places, and every fourth district *)
(* carries an index that is not its price over its salary.                 *)
(***************************************************************************)
PriceCycle == <<300000, 150000, 450000, 225000, 600000, 300000, 312500>>

SalaryCycle == <<40000, 30000, 50000>>

StoredIndexCycle == <<6, 9, 12, 0>>

PoolPrice(k) == PriceCycle[((k - 1) % Len(PriceCycle)) + 1]

PoolSalary(k) == SalaryCycle[((k - 1) % Len(SalaryCycle)) + 1]

PoolIndex(k) ==
    IF k % 4 = 0
    THEN <<StoredIndexCycle[((k \div 4 - 1) % Len(StoredIndexCycle)) + 1], 1>>
    ELSE Frac(PoolPrice(k), PoolSalary(k))

CsvRow(k) ==
    [LAD23CD |-> k, Location |-> k, Price |-> PoolPrice(k),
     Salary |-> PoolSalary(k), HAI |-> PoolIndex(k)]

Reverse(s) == [i \in 1..Len(s) |-> s[Len(s) + 1 - i]]

Window(o, n, backwards) ==
    LET w == [i \in 1..n |-> CsvRow(o + i)]
    IN IF backwards THEN Reverse(w) ELSE w

Datasets ==
    {Window(o, n, b) : o \in 0..MaxOffset, n \in 0..MaxDistricts, b \in BOOLEAN}

\* The datasets of the interleaved sessions: the districts A and B.
SmallDatasets == {Window(0, 2, FALSE)}

(***************************************************************************)
(* Lines 10-12: MergedData and its column Original Affordability Index, a  *)
(* copy of the index column.  The frame at load time has no column         *)
(* Affordability Level.                                                    *)
(***************************************************************************)
GlobalRef == "MergedData"

NoColumn == "NoColumn"

LoadMergedData(file) ==
    [i \in DOMAIN file |->
        [LAD23CD |-> file[i].LAD23CD, Location |-> file[i].Location,
         Price |-> file[i].Price, Salary |-> file[i].Salary,
         HAI |-> file[i].HAI, Orig |-> file[i].HAI, Level |-> NoColumn]]

MergedData == frames[GlobalRef]

(***************************************************************************)
(* The inputs of a request: what ctx.triggered lists, and the value of the *)
(* number input (absent, or a number: negative, zero, a fraction of a      *)
(* pound, or a salary).  ctx.triggered is empty for the call Dash makes    *)
(* when the page loads, and the input (lines 98-104, no value) is empty    *)
(* then.  The argument reset_clicks is never read.                         *)
(***************************************************************************)
\* user_salary of an empty input: Python's None.
NoSalary == << >>

ResetProp == "reset-button.n_clicks"

SalaryProp == "salary-input.value"

Triggers == {<< >>, <<SalaryProp>>, <<ResetProp>>}

SalaryInputs == {NoSalary, <<-100, 1>>, <<0, 1>>, <<1, 2>>, <<50000, 1>>}

Requests ==
    {r \in [triggered : Triggers, user_salary : SalaryInputs] :
        r.triggered = << >> => r.user_salary = NoSalary}

(***************************************************************************)
(* Lines 152-173: which branch of update_dashboard a request takes.        *)
(***************************************************************************)
\* Line 153: ctx.triggered and ctx.triggered[0]["prop_id"] == "reset-button.n_clicks".
TriggeredByReset(triggered) == Len(triggered) > 0 /\ triggered[1] = ResetProp

\* Branch with the warning kept for negative salaries only (< for <=).
BranchNegativeOnly(triggered_by_reset, user_salary) ==
    IF triggered_by_reset THEN "reset"
    ELSE IF user_salary # NoSalary /\ GtInt(user_salary, 0) THEN "salary"
    ELSE IF user_salary # NoSalary /\ user_salary[1] < 0 THEN "invalid"
    ELSE "default"

\* Branch with the salary tested before the reset.
BranchSalaryFirst(triggered_by_reset, user_salary) ==
    IF user_salary # NoSalary /\ GtInt(user_salary, 0) THEN "salary"
    ELSE IF triggered_by_reset THEN "reset"
    ELSE IF user_salary # NoSalary /\ LeInt(user_salary, 0) THEN "invalid"
    ELSE "default"

\* The if / elif / elif / else of lines 155-173, in the order the code tests them.
Branch(triggered_by_reset, user_salary) ==
    IF triggered_by_reset THEN "reset"
    ELSE IF user_salary # NoSalary /\ GtInt(user_salary, 0) THEN "salary"
    ELSE IF user_salary # NoSalary /\ LeInt(user_salary, 0) THEN "invalid"
    ELSE "default"

\* Lines 156, 167, 171: df[index] = df[original index].
SetIndexFromOriginal(t) == [i \in DOMAIN t |-> [t[i] EXCEPT !.HAI = t[i].Orig]]

\* SetIndexFromSalary dividing by the district's own median salary.
SetIndexFromMedianSalary(t, user_salary) ==
    [i \in DOMAIN t |-> [t[i] EXCEPT !.HAI = Frac(t[i].Price, t[i].Salary)]]

\* Line 161: df[index] = df[Median House Price] / user_salary.
SetIndexFromSalary(t, user_salary) ==
    [i \in DOMAIN t |-> [t[i] EXCEPT !.HAI = TrueDiv(t[i].Price, user_salary)]]

\* Line 166, as the phrases it is made of.
WarningMessage ==
    <<"(warning sign) Please enter a ", "valid salary greater than £0", ".">>

\* warning_message and show_warning as each branch leaves them.
WarningFor(branch) ==
    IF branch = "invalid"
    THEN [message |-> WarningMessage, show |-> TRUE]
    ELSE [message |-> << >>, show |-> FALSE]

(***************************************************************************)
(* pd.cut with bins [0, 6, 9, 12, inf] and the four labels.  pandas takes  *)
(* right=True unless told otherwise: bin i is (bins[i], bins[i+1]], and    *)
(* include_lowest adds the lowest edge to the first bin.  A value in no    *)
(* bin gets no label (NaN).  The last edge, float("inf"), is the missing   *)
(* fifth entry of Bins: every index of the model is finite.                *)
(***************************************************************************)
Bins == <<0, 6, 9, 12>>

\* Labels with the two middle bands exchanged.
LabelsSwapped == <<"Very Affordable", "Expensive", "Affordable", "Very Expensive">>

Labels == <<"Very Affordable", "Affordable", "Expensive", "Very Expensive">>

InBin(x, i) == GtInt(x, Bins[i]) /\ (i = Len(Bins) \/ LeInt(x, Bins[i + 1]))

\* PdCut with right=False: bin i is [bins[i], bins[i+1]).
PdCutRightOpen(x, include_lowest) ==
    LET within(i) == /\ x[1] >= Bins[i] * x[2]
                     /\ (i = Len(Bins) \/ x[1] < Bins[i + 1] * x[2])
    IN IF \E i \in 1..Len(Labels) : within(i)
       THEN Labels[CHOOSE i \in 1..Len(Labels) : within(i)]
       ELSE NaN

PdCut(x, include_lowest) ==
    IF include_lowest /\ x[1] = Bins[1] * x[2] THEN Labels[1]
    ELSE IF \E i \in 1..Len(Labels) : InBin(x, i)
         THEN Labels[CHOOSE i \in 1..Len(Labels) : InBin(x, i)]
         ELSE NaN

\* Lines 28-33 and 178: df["Affordability Level"] = pd.cut(df[index], ...).
AssignLevel(t, include_lowest) ==
    [i \in DOMAIN t |-> [t[i] EXCEPT !.Level = PdCut(t[i].HAI, include_lowest)]]

(***************************************************************************)
(* Lines 181-182: nsmallest and nlargest (keep="first").  pandas orders    *)
(* the rows by the column with a stable sort, of the negated column for    *)
(* nlargest, and takes the first n: equal values stay in the order of the  *)
(* frame in both.  For a frame of at most n rows pandas sorts the whole    *)
(* column instead; the model gives equal values the order of the frame     *)
(* there too.  The sort is a function of the column either way.            *)
(***************************************************************************)
TopN == 5

BeforeAsc(t, i, j) ==
    FracLt(t[i].HAI, t[j].HAI) \/ (t[i].HAI = t[j].HAI /\ i < j)

BeforeDesc(t, i, j) ==
    FracLt(t[j].HAI, t[i].HAI) \/ (t[i].HAI = t[j].HAI /\ i < j)

NSmallest(t, n) ==
    [k \in 1..Min(n, Len(t)) |->
        t[CHOOSE i \in DOMAIN t :
            Cardinality({j \in DOMAIN t : BeforeAsc(t, j, i)}) = k - 1]]

\* NLargest taking the smallest, as nsmallest does.
NLargestAscending(t, n) == NSmallest(t, n)

NLargest(t, n) ==
    [k \in 1..Min(n, Len(t)) |->
        t[CHOOSE i \in DOMAIN t :
            Cardinality({j \in DOMAIN t : BeforeDesc(t, j, i)}) = k - 1]]

(***************************************************************************)
(* Lines 184-192: the cells of the tables.  f"£{x:,.0f}" of a whole amount *)
(* is the pound sign and the amount in groups of three digits; f"{x:.2f}"  *)
(* is the index rounded to hundredths, a half going to the even digit.     *)
(* The "N/A" of a missing value is never produced here: every price,       *)
(* salary and index of the model's datasets is a number.                   *)
(***************************************************************************)
RECURSIVE Groups(_)
Groups(n) == IF n < 1000 THEN <<n>> ELSE Append(Groups(n \div 1000), n % 1000)

FormatCurrency(x) == <<"£", Groups(x)>>

RoundHalfEven(n, d) ==
    LET q == n \div d
        r == n % d
    IN IF 2 * r < d THEN q
       ELSE IF 2 * r > d THEN q + 1
       ELSE IF q % 2 = 0 THEN q ELSE q + 1

FormatFixed2(x) ==
    LET h == RoundHalfEven(Abs(x[1]) * 100, x[2])
    IN [sign |-> IF x[1] < 0 THEN "-" ELSE "",
        whole |-> h \div 100, hundredths |-> h % 100]

\* The four columns of a ranking, formatted.
FormatTop(t) ==
    [i \in DOMAIN t |->
        LET row == t[i]
        IN [Location |-> row.Location, Price |-> FormatCurrency(row.Price),
            Salary |-> FormatCurrency(row.Salary), HAI |-> FormatFixed2(row.HAI)]]

\* df_to_html_table with the first row of the frame left out of the body.
df_to_html_table_skipping(t) ==
    [header |-> <<"Location", "Median House Price", "Median Salary",
                  "Housing Affordability Index">>,
     rows |-> [i \in 1..(Len(t) - 1) |->
                 LET row == t[i + 1]
                 IN <<row.Location, row.Price, row.Salary, row.HAI>>]]

\* Lines 76-79: a header of the column names and one table row per row of the frame.
df_to_html_table(t) ==
    [header |-> <<"Location", "Median House Price", "Median Salary",
                  "Housing Affordability Index">>,
     rows |-> [i \in DOMAIN t |->
                 LET row == t[i]
                 IN <<row.Location, row.Price, row.Salary, row.HAI>>]]

(***************************************************************************)
(* Lines 194-196: the title of the map.                                    *)
(***************************************************************************)
DefaultTitle == <<"England & Wales Housing Affordability Map based on 2024 data">>

\* int(x) drops the fraction, towards zero.
IntOf(x) == IF x[1] >= 0 THEN x[1] \div x[2] ELSE -((-x[1]) \div x[2])

\* Python's truth of user_salary: None and 0 are false.
Truthy(user_salary) == user_salary # NoSalary /\ user_salary[1] # 0

SalaryTitle(user_salary) ==
    <<"Affordability based on an annual salary of £", Groups(IntOf(user_salary)), " ">>

\* Title without the test of triggered_by_reset.
TitleIgnoringReset(triggered_by_reset, user_salary) ==
    IF Truthy(user_salary) /\ GtInt(user_salary, 0)
    THEN SalaryTitle(user_salary)
    ELSE DefaultTitle

\* Title without the test user_salary > 0.
TitleOfAnySalary(triggered_by_reset, user_salary) ==
    IF ~triggered_by_reset /\ Truthy(user_salary)
    THEN SalaryTitle(user_salary)
    ELSE DefaultTitle

Title(triggered_by_reset, user_salary) ==
    IF ~triggered_by_reset /\ Truthy(user_salary) /\ GtInt(user_salary, 0)
    THEN SalaryTitle(user_salary)
    ELSE DefaultTitle

(***************************************************************************)
(* Lines 23-73: generate_affordability_map writes the level column of the  *)
(* frame it is given (include_lowest=True) and returns the figure: its     *)
(* title and, per district, the location, the level that colours it and    *)
(* the custom data of the hover text.                                      *)
(***************************************************************************)
Choropleth(t, title) ==
    [title |-> title,
     districts |-> [i \in DOMAIN t |->
        LET row == t[i]
        IN [locations |-> row.LAD23CD, hover_name |-> row.Location,
            color |-> row.Level,
            custom_data |-> <<row.HAI, row.Price, row.Salary>>]]]

(***************************************************************************)
(* update_dashboard read as a function of the dataset and the request: the *)
(* response of lines 147-205 when nothing else touches the frame it works  *)
(* on.                                                                     *)
(***************************************************************************)
update_dashboard(base, r) ==
    LET tbr == TriggeredByReset(r.triggered)
        branch == Branch(tbr, r.user_salary)
        t1 == IF branch = "salary"
              THEN SetIndexFromSalary(base, r.user_salary)
              ELSE SetIndexFromOriginal(base)
        t == AssignLevel(t1, FALSE)
    IN [figure |-> Choropleth(AssignLevel(t, TRUE), Title(tbr, r.user_salary)),
        affordable |-> df_to_html_table(FormatTop(NSmallest(t, TopN))),
        expensive |-> df_to_html_table(FormatTop(NLargest(t, TopN))),
        children |-> WarningFor(branch).message,
        is_open |-> WarningFor(branch).show]

\* df = MergedData, without the copy: the session works on the global frame.
DataFrameAlias(u) == GlobalRef

\* Line 150: df = MergedData.copy() is a new object, held by the session.
DataFrameCopy(u) == u

\* A function with one more, or one fewer, argument: a name bound or dropped.
Put(f, k, v) == [x \in DOMAIN f \cup {k} |-> IF x = k THEN v ELSE f[x]]

Drop(f, k) == [x \in DOMAIN f \ {k} |-> f[x]]

\* The state after the module is loaded (lines 10-12), with no request yet:
\* the only frame is MergedData, and no session has a local or a response.
Loaded(files, sessions) ==
    /\ csv \in files
    /\ frames = [r \in {GlobalRef} |-> LoadMergedData(csv)]
    /\ pc = [u \in sessions |-> "idle"]
    /\ req = << >>
    /\ df = << >>
    /\ warn = << >>
    /\ out = << >>
    /\ lastReq = << >>
    /\ twice = [u \in sessions |-> FALSE]

\* One browser session, any dataset.
Init == Loaded(Datasets, {"s1"})

\* Two browser sessions whose requests the server handles in threads.
InitConc == Loaded(SmallDatasets, {"s1", "s2"})

Sessions == DOMAIN pc

\* Lines 147-150: a request arrives; the locals are set and the dataset copied.
Begin(u) ==
    /\ pc[u] = "idle"
    /\ \E r \in Requests : req' = Put(req, u, r)
    /\ warn' = Put(warn, u, [message |-> << >>, show |-> FALSE])
    /\ df' = Put(df, u, DataFrameCopy(u))
    /\ frames' = Put(frames, df'[u], frames[GlobalRef])
    /\ pc' = [pc EXCEPT ![u] = "copied"]
    /\ UNCHANGED <<csv, out, lastReq, twice>>

\* Lines 152-178: the index column, the warning, and the level column.
Recompute(u) ==
    /\ pc[u] = "copied"
    /\ LET branch == Branch(TriggeredByReset(req[u].triggered), req[u].user_salary)
           t == frames[df[u]]
           t1 == IF branch = "salary"
                 THEN SetIndexFromSalary(t, req[u].user_salary)
                 ELSE SetIndexFromOriginal(t)
       IN /\ frames' = [frames EXCEPT ![df[u]] = AssignLevel(t1, FALSE)]
          /\ warn' = [warn EXCEPT ![u] = WarningFor(branch)]
    /\ pc' = [pc EXCEPT ![u] = "computed"]
    /\ UNCHANGED <<csv, req, df, out, lastReq, twice>>

\* Lines 181-205: the rankings, the title, the map; the response is returned
\* and the locals go: the frame df names, unless it is the global one, is
\* garbage.
Render(u) ==
    /\ pc[u] = "computed"
    /\ LET t == frames[df[u]]
           tbr == TriggeredByReset(req[u].triggered)
           top_affordable == FormatTop(NSmallest(t, TopN))
           top_expensive == FormatTop(NLargest(t, TopN))
           title == Title(tbr, req[u].user_salary)
           mapped == AssignLevel(t, TRUE)
       IN /\ out' = Put(out, u,
                 [figure |-> Choropleth(mapped, title),
                  affordable |-> df_to_html_table(top_affordable),
                  expensive |-> df_to_html_table(top_expensive),
                  children |-> warn[u].message,
                  is_open |-> warn[u].show])
          /\ frames' = IF df[u] = GlobalRef
                       THEN [frames EXCEPT ![GlobalRef] = mapped]
                       ELSE Drop(frames, df[u])
          /\ twice' = [twice EXCEPT ![u] =
                 /\ tbr
                 /\ u \in DOMAIN lastReq
                 /\ TriggeredByReset(lastReq[u].triggered)]
    /\ lastReq' = Put(lastReq, u, req[u])
    /\ req' = Drop(req, u)
    /\ df' = Drop(df, u)
    /\ warn' = Drop(warn, u)
    /\ pc' = [pc EXCEPT ![u] = "idle"]
    /\ UNCHANGED csv

BeginRequest == \E u \in Sessions : Begin(u)

RecomputeIndex == \E u \in Sessions : Recompute(u)

RenderResponse == \E u \in Sessions : Render(u)

Next == BeginRequest \/ RecomputeIndex \/ RenderResponse

Spec == Init /\ [][Next]_vars

SpecConc == InitConc /\ [][Next]_vars

(***************************************************************************)
(* What the claims are stated over: a session's last response and the      *)
(* request that produced it.                                               *)
(***************************************************************************)
HasResponse(u) == u \in DOMAIN out

ByReset(u) == TriggeredByReset(lastReq[u].triggered)

Salary(u) == lastReq[u].user_salary

PositiveSalary(u) == Salary(u) # NoSalary /\ GtInt(Salary(u), 0)

InvalidSalary(u) == Salary(u) # NoSalary /\ LeInt(Salary(u), 0)

Districts(u) == out[u].figure.districts

IndexOf(u, i) == Districts(u)[i].custom_data[1]

\* The response shows every district of the dataset, with its original index.
ShowsOriginal(u) ==
    /\ Len(Districts(u)) = Len(MergedData)
    /\ \A i \in DOMAIN MergedData :
          /\ Districts(u)[i].locations = MergedData[i].LAD23CD
          /\ IndexOf(u, i) = MergedData[i].Orig

NoWarning(u) == out[u].children = << >> /\ out[u].is_open = FALSE

\* C1: a response to a request not triggered by reset whose salary is a number
\* greater than 0 gives every district the index median house price / salary,
\* the one salary for all districts, and shows no warning.
C1_IndexIsPriceOverSalary ==
    \A u \in Sessions :
        (HasResponse(u) /\ ~ByReset(u) /\ PositiveSalary(u)) =>
            /\ Len(Districts(u)) = Len(MergedData)
            /\ \A i \in DOMAIN MergedData :
                  /\ Districts(u)[i].locations = MergedData[i].LAD23CD
                  /\ IndexOf(u, i)[1] * Salary(u)[1]
                        = MergedData[i].Price * Salary(u)[2] * IndexOf(u, i)[2]
            /\ NoWarning(u)

C1_Witness ==
    \E u \in Sessions :
        /\ HasResponse(u) /\ ~ByReset(u) /\ Salary(u) = <<50000, 1>>
        /\ Len(MergedData) >= 2
        /\ \E i \in DOMAIN MergedData :
              MergedData[i].Price = 300000 /\ IndexOf(u, i) = <<6, 1>>
        /\ \E i \in DOMAIN MergedData : IndexOf(u, i) # MergedData[i].Orig

\* C2: for a salary <= 0, for no salary, and on reset, every district has its
\* original index; the warning is shown only when the salary is a number <= 0
\* (and is shown for it when the request is not a reset); a shown warning
\* contains "valid salary greater than £0", and a hidden one has no text.
C2_FallbackAndWarning ==
    \A u \in Sessions :
        (HasResponse(u) /\ (ByReset(u) \/ Salary(u) = NoSalary \/ InvalidSalary(u))) =>
            /\ ShowsOriginal(u)
            /\ out[u].is_open => InvalidSalary(u)
            /\ (~ByReset(u) /\ InvalidSalary(u)) => out[u].is_open
            /\ out[u].is_open =>
                  \E k \in DOMAIN out[u].children :
                      out[u].children[k] = "valid salary greater than £0"
            /\ ~out[u].is_open => out[u].children = << >>

C2_Witness ==
    \E u \in Sessions :
        /\ HasResponse(u) /\ ~ByReset(u) /\ Salary(u) = <<-100, 1>>
        /\ out[u].is_open
        /\ Len(MergedData) >= 2
        /\ \E i \in DOMAIN MergedData :
              IndexOf(u, i) # Frac(MergedData[i].Price, MergedData[i].Salary)

\* C3: a response to a request triggered by the reset button, after any
\* earlier requests and whatever the salary input holds, gives every district
\* its original index, with an empty and hidden warning.
C3_ResetTakesPrecedence ==
    \A u \in Sessions :
        (HasResponse(u) /\ ByReset(u)) => (ShowsOriginal(u) /\ NoWarning(u))

C3_Witness ==
    \E u \in Sessions :
        /\ HasResponse(u) /\ ByReset(u) /\ PositiveSalary(u)
        /\ Len(MergedData) >= 2
        /\ twice[u]

(***************************************************************************)
(* The bands of the map, written out with the numbers of the claim.        *)
(***************************************************************************)
RightOpenBand(x) ==
    IF x[1] < 6 * x[2] THEN "Very Affordable"
    ELSE IF x[1] < 9 * x[2] THEN "Affordable"
    ELSE IF x[1] < 12 * x[2] THEN "Expensive"
    ELSE "Very Expensive"

RightClosedBand(x) ==
    IF x[1] <= 6 * x[2] THEN "Very Affordable"
    ELSE IF x[1] <= 9 * x[2] THEN "Affordable"
    ELSE IF x[1] <= 12 * x[2] THEN "Expensive"
    ELSE "Very Expensive"

\* C4 as claimed: the band that colours a district is that of the right-open
\* intervals [0,6), [6,9), [9,12), [12,inf): an index of exactly 6 is
\* Affordable, of exactly 9 Expensive, of exactly 12 Very Expensive.
C4_RightOpenBands ==
    \A u \in Sessions :
        HasResponse(u) =>
            \A i \in DOMAIN Districts(u) :
                (IndexOf(u, i)[1] >= 0) =>
                    Districts(u)[i].color = RightOpenBand(IndexOf(u, i))

\* C4 as amended: the band that colours a district is that of the intervals
\* [0,6], (6,9], (9,12], (12,inf), closed on the right: an index of exactly 6
\* is Very Affordable, of exactly 9 Affordable, of exactly 12 Expensive.
C4_RightClosedBands ==
    \A u \in Sessions :
        HasResponse(u) =>
            \A i \in DOMAIN Districts(u) :
                (IndexOf(u, i)[1] >= 0) =>
                    Districts(u)[i].color = RightClosedBand(IndexOf(u, i))

C4_Witness ==
    \E u \in Sessions :
        /\ HasResponse(u) /\ ~ByReset(u) /\ Salary(u) = <<50000, 1>>
        /\ \E i \in DOMAIN Districts(u) :
              /\ MergedData[i].Price = 300000
              /\ IndexOf(u, i) = <<6, 1>>
              /\ Districts(u)[i].color = "Very Affordable"
        /\ \E i \in DOMAIN Districts(u) :
              IndexOf(u, i) = <<9, 1>> /\ Districts(u)[i].color = "Affordable"
        /\ \E i \in DOMAIN Districts(u) :
              IndexOf(u, i) = <<12, 1>> /\ Districts(u)[i].color = "Expensive"

(***************************************************************************)
(* The rankings.  The indices of the districts a table lists are read from *)
(* the figure of the same response, by location.                           *)
(***************************************************************************)
Listed(table) == {table.rows[k][1] : k \in DOMAIN table.rows}

ListedIndices(u, table) ==
    {IndexOf(u, i) : i \in {j \in DOMAIN Districts(u) :
                                Districts(u)[j].hover_name \in Listed(table)}}

\* No district left out of a table has the index of a district listed in it.
NoTieSpansBoundary(u, table) ==
    \A i \in DOMAIN Districts(u) :
        Districts(u)[i].hover_name \notin Listed(table) =>
            IndexOf(u, i) \notin ListedIndices(u, table)

MostBelowLeast(u) ==
    \A a \in ListedIndices(u, out[u].affordable) :
        \A e \in ListedIndices(u, out[u].expensive) : FracLe(a, e)

\* C5 as claimed: for a dataset of any number of districts, when no ties span
\* the boundary, the largest index of the most affordable table is at most the
\* smallest index of the least affordable table.
C5_AnyDistrictCount ==
    \A u \in Sessions :
        (/\ HasResponse(u)
         /\ NoTieSpansBoundary(u, out[u].affordable)
         /\ NoTieSpansBoundary(u, out[u].expensive)) => MostBelowLeast(u)

\* C5 as amended: for a dataset of at least 10 districts, the largest index of
\* the most affordable table is at most the smallest index of the least
\* affordable table, ties or not.
C5_TenOrMoreDistricts ==
    \A u \in Sessions :
        (HasResponse(u) /\ Len(MergedData) >= 10) => MostBelowLeast(u)

C5_Witness ==
    \E u \in Sessions :
        /\ HasResponse(u) /\ Len(MergedData) >= 10
        /\ PositiveSalary(u) /\ ~ByReset(u)
        /\ ~NoTieSpansBoundary(u, out[u].affordable)
        /\ Cardinality(ListedIndices(u, out[u].expensive)) > 1

\* C6: at every step of every request, however the requests of the sessions
\* interleave, MergedData is the frame that was loaded from the file (its
\* original index column included), and every response is the one
\* update_dashboard gives for that request alone on the dataset as loaded.
C6_BaseDatasetUntouched ==
    /\ MergedData = LoadMergedData(csv)
    /\ \A u \in Sessions :
          HasResponse(u) => out[u] = update_dashboard(LoadMergedData(csv), lastReq[u])

C6_Witness ==
    \E u, v \in Sessions :
        /\ u # v
        /\ HasResponse(u) /\ ~ByReset(u) /\ PositiveSalary(u)
        /\ HasResponse(v) /\ InvalidSalary(v)
        /\ pc[u] = "computed" /\ pc[v] = "computed"
        /\ frames[df[u]] # frames[df[v]]
        /\ \A i \in DOMAIN MergedData :
              MergedData[i].HAI = MergedData[i].Orig /\ MergedData[i].Level = NoColumn

\* C7: each of the two ranking tables of a response has exactly
\* min(5, number of districts) rows.
C7_TableRowCount ==
    \A u \in Sessions :
        HasResponse(u) =>
            /\ Len(out[u].affordable.rows) = Min(5, Len(MergedData))
            /\ Len(out[u].expensive.rows) = Min(5, Len(MergedData))

C7_Witness ==
    \E u \in Sessions :
        /\ HasResponse(u) /\ Len(MergedData) = 3
        /\ Len(out[u].affordable.rows) = 3 /\ Len(out[u].expensive.rows) = 3

\* C8: a response to a reset-triggered request that follows a reset-triggered
\* response of the same session is identical to it: map, bands, both tables,
\* title, warning text and visibility.
C8_ResetIdempotent ==
    [][\A u \in Sessions :
        (/\ pc[u] = "computed" /\ pc'[u] = "idle"
         /\ TriggeredByReset(req[u].triggered)
         /\ HasResponse(u) /\ ByReset(u)) => out'[u] = out[u]]_vars

C8_Witness ==
    \E u \in Sessions :
        /\ twice[u]
        /\ Len(MergedData) >= 2
        /\ PositiveSalary(u)

(***************************************************************************)
(* The number a title's groups of three digits spell.                      *)
(***************************************************************************)
RECURSIVE GroupsValue(_)
GroupsValue(g) ==
    IF Len(g) = 0 THEN 0
    ELSE 1000 * GroupsValue(SubSeq(g, 1, Len(g) - 1)) + g[Len(g)]

\* C9: the title of the map embeds the salary, as whole pounds in groups of
\* three digits, exactly when the indices were recomputed from it (not a reset,
\* salary a number > 0); otherwise it is the default title of the dataset.
C9_TitleReflectsSalary ==
    \A u \in Sessions :
        HasResponse(u) =>
            IF ~ByReset(u) /\ PositiveSalary(u)
            THEN /\ Len(out[u].figure.title) = 3
                 /\ out[u].figure.title[1] = "Affordability based on an annual salary of £"
                 /\ GroupsValue(out[u].figure.title[2]) = Salary(u)[1] \div Salary(u)[2]
                 /\ \A k \in 2..Len(out[u].figure.title[2]) :
                        out[u].figure.title[2][k] \in 0..999
            ELSE out[u].figure.title =
                    <<"England & Wales Housing Affordability Map based on 2024 data">>

C9_Witness ==
    \E u \in Sessions :
        /\ HasResponse(u) /\ ~ByReset(u) /\ Salary(u) = <<50000, 1>>
        /\ out[u].figure.title[2] = <<50, 0>>
        /\ Len(MergedData) >= 1

(***************************************************************************)
(* The order of the bands, most affordable first.                          *)
(***************************************************************************)
BandRank(band) ==
    CASE band = "Very Affordable" -> 1
      [] band = "Affordable" -> 2
      [] band = "Expensive" -> 3
      [] band = "Very Expensive" -> 4
      [] OTHER -> 0

\* C10: of two districts of a response with non-negative indices a <= b, the
\* one with b is never in a more affordable band than the one with a.
C10_BandsMonotonic ==
    \A u \in Sessions :
        HasResponse(u) =>
            \A i, j \in DOMAIN Districts(u) :
                (/\ IndexOf(u, i)[1] >= 0
                 /\ FracLe(IndexOf(u, i), IndexOf(u, j))) =>
                    BandRank(Districts(u)[i].color) <= BandRank(Districts(u)[j].color)

C10_Witness ==
    \E u \in Sessions :
        /\ HasResponse(u)
        /\ \E i, j \in DOMAIN Districts(u) :
              /\ FracLt(IndexOf(u, i), IndexOf(u, j))
              /\ BandRank(Districts(u)[i].color) = 1
              /\ BandRank(Districts(u)[j].color) = 4
        /\ \E i, j \in DOMAIN Districts(u) :
              /\ FracLt(IndexOf(u, i), IndexOf(u, j))
              /\ Districts(u)[i].color = Districts(u)[j].color
=============================================================================
